---- MODULE Spec2Model ----
(***************************************************************************)
(* Model of seo-scoring-app.py: the SEOScorer class (metric evaluation,    *)
(* category means, weighted overall score, grade), get_score_status, and   *)
(* the single-file pipeline of main() with its export (create_export_data, *)
(* create_summary_report) and its "Key Insights".                          *)
(*                                                                         *)
(* Numbers.  The program computes in IEEE doubles.  The model computes the *)
(* same values as exact rationals num/den.  For the row counts the model   *)
(* explores (fewer than 40 rows) and for all category scores 0..100 the    *)
(* double results (m/n)*100, the comparisons with 50 and 70, and           *)
(* round(sum(weighted)*100) coincide with the exact rational results.      *)
(* 'Response Time' is held in milliseconds (1.0 s = 1000) and              *)
(* 'Cumulative Layout Shift' in thousandths (0.1 = 100); the weights are   *)
(* held in tenths (0.4 = 4).                                               *)
(***************************************************************************)
EXTENDS Integers, Sequences, FiniteSets, TLC

VARIABLES pc, df, weights,
          content_score, content_details, content_weaknesses,
          technical_score, technical_details, technical_weaknesses,
          ux_score, ux_details, ux_weaknesses,
          overall_score, grade, status,
          shown, issues_data, sorted_categories, lowest_category

vars == <<pc, df, weights,
          content_score, content_details, content_weaknesses,
          technical_score, technical_details, technical_weaknesses,
          ux_score, ux_details, ux_weaknesses,
          overall_score, grade, status,
          shown, issues_data, sorted_categories, lowest_category>>

\* Largest number of rows of an uploaded crawl export.
MaxRows == 23

----------------------------------------------------------------------------
(* The dataset: a pandas DataFrame, a set of column names and rows that    *)
(* map each present column to a cell.  A missing text cell is "NaN".       *)

AllColumns == {"Title 1", "Title 1 Length", "Meta Description 1",
               "Meta Description 1 Length", "H1-1", "Inlinks",
               "Response Time", "Indexability", "Mobile Alternate Link",
               "Largest Contentful Paint Time (ms)", "Cumulative Layout Shift"}

\* A page that passes every rule.
GoodRow ==
    ("Title 1" :> "title") @@ ("Title 1 Length" :> 45) @@
    ("Meta Description 1" :> "description") @@ ("Meta Description 1 Length" :> 140) @@
    ("H1-1" :> "heading") @@ ("Inlinks" :> 5) @@
    ("Response Time" :> 500) @@ ("Indexability" :> "Indexable") @@
    ("Mobile Alternate Link" :> "m.example") @@
    ("Largest Contentful Paint Time (ms)" :> 2000) @@ ("Cumulative Layout Shift" :> 50)

\* A page on the boundaries: passes description, inlinks, response time and
\* LCP (each exactly at its limit), fails the others.
MixedRow ==
    ("Title 1" :> "title") @@ ("Title 1 Length" :> 61) @@
    ("Meta Description 1" :> "description") @@ ("Meta Description 1 Length" :> 120) @@
    ("H1-1" :> "NaN") @@ ("Inlinks" :> 1) @@
    ("Response Time" :> 1000) @@ ("Indexability" :> "Non-Indexable") @@
    ("Mobile Alternate Link" :> "NaN") @@
    ("Largest Contentful Paint Time (ms)" :> 2500) @@ ("Cumulative Layout Shift" :> 101)

\* A page that fails every rule.
BadRow ==
    ("Title 1" :> "NaN") @@ ("Title 1 Length" :> 0) @@
    ("Meta Description 1" :> "NaN") @@ ("Meta Description 1 Length" :> 0) @@
    ("H1-1" :> "NaN") @@ ("Inlinks" :> 0) @@
    ("Response Time" :> 1001) @@ ("Indexability" :> "Non-Indexable") @@
    ("Mobile Alternate Link" :> "NaN") @@
    ("Largest Contentful Paint Time (ms)" :> 2501) @@ ("Cumulative Layout Shift" :> 250)

ContentColumns == {"Title 1", "Title 1 Length", "Meta Description 1",
                   "Meta Description 1 Length", "H1-1", "Inlinks"}
TechnicalColumns == {"Response Time", "Indexability"}

\* The column sets of the uploaded exports: the full export, an export that
\* lacks one column, an export without the content columns, an export with
\* the user-experience columns only, an export with none of the expected
\* columns.
ColumnSets ==
    {AllColumns} \cup {AllColumns \ {c} : c \in AllColumns}
    \cup {AllColumns \ ContentColumns,
          AllColumns \ (ContentColumns \cup TechnicalColumns), {}}

\* pd.read_csv / pd.read_excel: the table with the given columns and
\* good + mixed + bad rows.
read_csv(cols, good, mixed, bad) ==
    [columns |-> cols,
     rows |-> [i \in 1..(good + mixed + bad) |->
                 [c \in cols |-> IF i <= good THEN GoodRow[c]
                                 ELSE IF i <= good + mixed THEN MixedRow[c]
                                 ELSE BadRow[c]]]]

NoFile == [columns |-> {}, rows |-> << >>]

----------------------------------------------------------------------------
(* Arithmetic.                                                             *)

\* Series.notna() on one text cell.
notna(v) == v # "NaN"

\* Python's round() of the double num/den (num >= 0, den > 0): nearest
\* integer, a tie goes to the even neighbour.
round(num, den) ==
    LET q == num \div den
        r == num % den
    IN  IF 2 * r < den THEN q
        ELSE IF 2 * r > den THEN q + 1
        ELSE IF q % 2 = 0 THEN q ELSE q + 1

RECURSIVE SumSeq(_)
SumSeq(s) == IF s = << >> THEN 0 ELSE Head(s) + SumSeq(Tail(s))

RECURSIVE Flatten(_)
Flatten(ss) == IF ss = << >> THEN << >> ELSE Head(ss) \o Flatten(Tail(ss))

----------------------------------------------------------------------------
(* The metric catalog: the nine if/else blocks of the three analyses.      *)

ContentMetrics == <<"meta_title", "meta_description", "h1_tags", "internal_linking">>
TechnicalMetrics == <<"response_time", "indexability">>
UxMetrics == <<"mobile_friendly", "largest_contentful_paint", "cumulative_layout_shift">>

\* The columns a block tests with "in df.columns".
Required(metric) ==
    CASE metric = "meta_title" -> {"Title 1", "Title 1 Length"}
      [] metric = "meta_description" -> {"Meta Description 1", "Meta Description 1 Length"}
      [] metric = "h1_tags" -> {"H1-1"}
      [] metric = "internal_linking" -> {"Inlinks"}
      [] metric = "response_time" -> {"Response Time"}
      [] metric = "indexability" -> {"Indexability"}
      [] metric = "mobile_friendly" -> {"Mobile Alternate Link"}
      [] metric = "largest_contentful_paint" -> {"Largest Contentful Paint Time (ms)"}
      [] metric = "cumulative_layout_shift" -> {"Cumulative Layout Shift"}

\* The boolean a block computes for one row.
Predicate(metric, row) ==
    CASE metric = "meta_title" ->
            notna(row["Title 1"])
            /\ (row["Title 1 Length"] >= 30 /\ row["Title 1 Length"] <= 60)
      [] metric = "meta_description" ->
            notna(row["Meta Description 1"])
            /\ (row["Meta Description 1 Length"] >= 120
                /\ row["Meta Description 1 Length"] <= 160)
      [] metric = "h1_tags" -> notna(row["H1-1"])
      [] metric = "internal_linking" -> row["Inlinks"] > 0
      [] metric = "response_time" -> row["Response Time"] <= 1000
      [] metric = "indexability" -> row["Indexability"] = "Indexable"
      [] metric = "mobile_friendly" -> notna(row["Mobile Alternate Link"])
      [] metric = "largest_contentful_paint" ->
            row["Largest Contentful Paint Time (ms)"] <= 2500
      [] metric = "cumulative_layout_shift" -> row["Cumulative Layout Shift"] <= 100

\* Threshold with the indexability limit forgotten.
ThresholdAllFifty(metric) == 50

\* The limit a block compares its unrounded score with.
Threshold(metric) == IF metric = "indexability" THEN 70 ELSE 50

\* The message a block appends to weaknesses.
Message(metric) ==
    CASE metric = "meta_title" -> "Short or missing meta titles."
      [] metric = "meta_description" -> "Short or missing meta descriptions."
      [] metric = "h1_tags" -> "Missing or poorly optimized H1 tags."
      [] metric = "internal_linking" -> "Insufficient internal linking."
      [] metric = "response_time" -> "Slow response times."
      [] metric = "indexability" -> "Pages not indexable."
      [] metric = "mobile_friendly" -> "Pages not mobile-friendly."
      [] metric = "largest_contentful_paint" -> "Slow LCP times."
      [] metric = "cumulative_layout_shift" -> "High CLS values."

\* The number of rows for which the block's boolean Series is True.
Matching(d, metric) ==
    Cardinality({i \in 1..Len(d.rows) : Predicate(metric, d.rows[i])})

\* evaluate without the "in df.columns" test: an absent column raises KeyError.
evaluate_keyerror(d, metric) ==
    LET rows == Len(d.rows)
    IN  IF ~(Required(metric) \subseteq d.columns) \/ rows = 0
        THEN [raised |-> TRUE, score |-> 0, weaknesses |-> << >>]
        ELSE [raised |-> FALSE,
              score |-> round(100 * Matching(d, metric), rows),
              weaknesses |-> IF 100 * Matching(d, metric) < Threshold(metric) * rows
                             THEN <<Message(metric)>> ELSE << >>]

\* evaluate with "<=" in place of "<" in the comparison with the limit.
evaluate_le(d, metric) ==
    IF Required(metric) \subseteq d.columns
    THEN LET rows == Len(d.rows)
             num == 100 * Matching(d, metric)
         IN  IF rows = 0
             THEN [raised |-> TRUE, score |-> 0, weaknesses |-> << >>]
             ELSE [raised |-> FALSE,
                   score |-> round(num, rows),
                   weaknesses |-> IF num <= Threshold(metric) * rows
                                  THEN <<Message(metric)>> ELSE << >>]
    ELSE [raised |-> FALSE, score |-> 0, weaknesses |-> << >>]

\* evaluate with the "* 100" forgotten: the score is the rounded fraction.
evaluate_fraction(d, metric) ==
    IF Required(metric) \subseteq d.columns
    THEN LET rows == Len(d.rows)
             num == 100 * Matching(d, metric)
         IN  IF rows = 0
             THEN [raised |-> TRUE, score |-> 0, weaknesses |-> << >>]
             ELSE [raised |-> FALSE,
                   score |-> round(Matching(d, metric), rows),
                   weaknesses |-> IF num < Threshold(metric) * rows
                                  THEN <<Message(metric)>> ELSE << >>]
    ELSE [raised |-> FALSE, score |-> 0, weaknesses |-> << >>]

\* One if/else block.  With the columns present: Series.mean() * 100 is the
\* double 100 * matching / rows, NaN for an empty Series; round(NaN) raises
\* ValueError before the comparison; otherwise the rounded score is stored
\* and the message appended when the unrounded score is below the limit.
\* With a column absent: score 0, nothing appended.
evaluate(d, metric) ==
    IF Required(metric) \subseteq d.columns
    THEN LET rows == Len(d.rows)
             num == 100 * Matching(d, metric)
         IN  IF rows = 0
             THEN [raised |-> TRUE, score |-> 0, weaknesses |-> << >>]
             ELSE [raised |-> FALSE,
                   score |-> round(num, rows),
                   weaknesses |-> IF num < Threshold(metric) * rows
                                  THEN <<Message(metric)>> ELSE << >>]
    ELSE [raised |-> FALSE, score |-> 0, weaknesses |-> << >>]

\* category_score with the mean taken relative to the highest metric score.
category_score_normalised(scores) ==
    LET top == CHOOSE x \in {scores[i] : i \in 1..Len(scores)} :
                   \A i \in 1..Len(scores) : scores[i] <= x
    IN  IF top = 0 THEN 0 ELSE round(100 * SumSeq(scores), Len(scores) * top)

\* round(np.mean(list(scores.values()))) of the scores in block order.
category_score(scores) == round(SumSeq(scores), Len(scores))

\* analyze with each weakness put at the front of the list.
analyze_reversed(d, metrics) ==
    LET res == [i \in 1..Len(metrics) |-> evaluate(d, metrics[i])]
        idx(m) == CHOOSE i \in 1..Len(metrics) : metrics[i] = m
    IN  IF \E i \in 1..Len(metrics) : res[i].raised
        THEN [raised |-> TRUE, score |-> 0, details |-> << >>, weaknesses |-> << >>]
        ELSE [raised |-> FALSE,
              score |-> category_score([i \in 1..Len(metrics) |-> res[i].score]),
              details |-> [m \in {metrics[i] : i \in 1..Len(metrics)} |->
                             res[idx(m)].score],
              weaknesses |-> Flatten([i \in 1..Len(metrics) |->
                                         res[Len(metrics) + 1 - i].weaknesses])]

\* The body shared by the three analyze_* methods: the blocks in order, then
\* round(np.mean(list(scores.values()))), scores, weaknesses.
analyze(d, metrics) ==
    LET res == [i \in 1..Len(metrics) |-> evaluate(d, metrics[i])]
        idx(m) == CHOOSE i \in 1..Len(metrics) : metrics[i] = m
    IN  IF \E i \in 1..Len(metrics) : res[i].raised
        THEN [raised |-> TRUE, score |-> 0, details |-> << >>, weaknesses |-> << >>]
        ELSE [raised |-> FALSE,
              score |-> category_score([i \in 1..Len(metrics) |-> res[i].score]),
              details |-> [m \in {metrics[i] : i \in 1..Len(metrics)} |->
                             res[idx(m)].score],
              weaknesses |-> Flatten([i \in 1..Len(metrics) |-> res[i].weaknesses])]

analyze_content_seo(d) == analyze(d, ContentMetrics)
analyze_technical_seo(d) == analyze(d, TechnicalMetrics)
analyze_user_experience(d) == analyze(d, UxMetrics)

\* SEOScorer.__init__: the weights, in tenths.
InitWeights == [content_seo |-> 4, technical_seo |-> 4, user_experience |-> 2]

\* calculate_overall_score as the plain mean of the three category scores.
calculate_overall_score_unweighted(w, content, technical, ux) ==
    round(content + technical + ux, 3)

\* calculate_overall_score without the division of each score by 100.
calculate_overall_score_unscaled(w, content, technical, ux) ==
    round(100 * (content * w.content_seo + technical * w.technical_seo
                 + ux * w.user_experience),
          10)

\* calculate_overall_score with the user-experience term subtracted.
calculate_overall_score_penalty(w, content, technical, ux) ==
    round(100 * (100 * w.user_experience + content * w.content_seo
                 + technical * w.technical_seo - ux * w.user_experience),
          100 * 10)

\* round(sum(weighted_scores.values()) * 100), each weighted score being
\* (score / 100) * weight.
calculate_overall_score(w, content, technical, ux) ==
    round(100 * (content * w.content_seo + technical * w.technical_seo
                 + ux * w.user_experience),
          100 * 10)

\* get_grade with ">" in place of ">=".
get_grade_strict(score) ==
    IF score > 90 THEN "A+"
    ELSE IF score > 80 THEN "A"
    ELSE IF score > 70 THEN "B"
    ELSE IF score > 60 THEN "C"
    ELSE IF score > 50 THEN "D"
    ELSE "F"

get_grade(score) ==
    IF score >= 90 THEN "A+"
    ELSE IF score >= 80 THEN "A"
    ELSE IF score >= 70 THEN "B"
    ELSE IF score >= 60 THEN "C"
    ELSE IF score >= 50 THEN "D"
    ELSE "F"

\* get_score_status with ">" in place of ">=".
get_score_status_strict(score) ==
    IF score > 90 THEN "Excellent"
    ELSE IF score > 80 THEN "Very Good"
    ELSE IF score > 70 THEN "Good"
    ELSE IF score > 60 THEN "Average"
    ELSE IF score > 50 THEN "Below Average"
    ELSE "Needs Work"

\* The status text, without its leading pictograph.
get_score_status(score) ==
    IF score >= 90 THEN "Excellent"
    ELSE IF score >= 80 THEN "Very Good"
    ELSE IF score >= 70 THEN "Good"
    ELSE IF score >= 60 THEN "Average"
    ELSE IF score >= 50 THEN "Below Average"
    ELSE "Needs Work"

----------------------------------------------------------------------------
(* The export and the recommendations.                                     *)

\* create_export_data: '; '.join(weaknesses) if weaknesses else 'No issues
\* detected', kept as the list of the joined items.
issues_of(weaknesses) ==
    IF weaknesses # << >> THEN weaknesses ELSE <<"No issues detected">>

\* create_export_data: issues_data, in key order.
create_issues_data(content_w, technical_w, ux_w) ==
    <<issues_of(content_w), issues_of(technical_w), issues_of(ux_w)>>

\* The list "categories" of create_summary_report and of main().
categories(content, technical, ux) ==
    <<[category |-> "Content SEO", score |-> content],
      [category |-> "Technical SEO", score |-> technical],
      [category |-> "User Experience", score |-> ux]>>

\* Python's sorted(categories, key=lambda x: x[1]): ascending and stable,
\* computed by inserting each item after the items that are not greater.
RECURSIVE sorted_into(_, _)
sorted_into(acc, rest) ==
    IF rest = << >> THEN acc
    ELSE LET x == Head(rest)
             k == Cardinality({i \in 1..Len(acc) : acc[i].score <= x.score})
         IN  sorted_into(SubSeq(acc, 1, k) \o <<x>> \o SubSeq(acc, k + 1, Len(acc)),
                         Tail(rest))

sorted(cats) == sorted_into(<< >>, cats)

\* min with the last of the lowest items in place of the first.
min_last(cats) ==
    cats[CHOOSE i \in 1..Len(cats) :
            /\ \A j \in 1..Len(cats) : cats[i].score <= cats[j].score
            /\ \A j \in (i + 1)..Len(cats) : cats[j].score > cats[i].score]

\* Python's min(categories, key=lambda x: x[1]): the first of the lowest items.
min(cats) ==
    cats[CHOOSE i \in 1..Len(cats) :
            /\ \A j \in 1..Len(cats) : cats[i].score <= cats[j].score
            /\ \A j \in 1..(i - 1) : cats[j].score > cats[i].score]

\* create_summary_report: the priority label of one line.
priority(score) ==
    IF score < 60 THEN "HIGH" ELSE IF score < 80 THEN "MEDIUM" ELSE "LOW"

\* create_summary_report: the numbered lines under "Priority Actions".
priority_actions(content, technical, ux) ==
    LET srt == sorted(categories(content, technical, ux))
    IN  [i \in 1..Len(srt) |->
            [category |-> srt[i].category, score |-> srt[i].score,
             priority |-> priority(srt[i].score)]]

----------------------------------------------------------------------------
(* main(): one Streamlit run per uploaded file.  pc is the position in the *)
(* try block; a score that is not yet assigned is NoScore, a label that is *)
(* not yet assigned is "".  shown is what the page displays.               *)

NoScore == 0 - 1

Init ==
    /\ pc = "idle"
    /\ df = NoFile
    /\ weights = InitWeights
    /\ content_score = NoScore /\ content_details = << >> /\ content_weaknesses = << >>
    /\ technical_score = NoScore /\ technical_details = << >> /\ technical_weaknesses = << >>
    /\ ux_score = NoScore /\ ux_details = << >> /\ ux_weaknesses = << >>
    /\ overall_score = NoScore /\ grade = "" /\ status = ""
    /\ shown = {} /\ issues_data = << >> /\ sorted_categories = << >>
    /\ lowest_category = ""

\* uploaded_file is set; df = pd.read_csv(...); scorer = SEOScorer().
Upload ==
    /\ pc = "idle"
    /\ \E cols \in ColumnSets, good \in 0..MaxRows, mixed \in 0..MaxRows, bad \in 0..MaxRows :
          /\ good + mixed + bad <= MaxRows
          /\ df' = read_csv(cols, good, mixed, bad)
    /\ weights' = InitWeights
    /\ pc' = "loaded"
    /\ UNCHANGED <<content_score, content_details, content_weaknesses,
                   technical_score, technical_details, technical_weaknesses,
                   ux_score, ux_details, ux_weaknesses, overall_score, grade, status,
                   shown, issues_data, sorted_categories, lowest_category>>

\* uploaded_file is set and pd.read_csv / pd.read_excel raises: the except
\* branch shows the error.
UploadMalformed ==
    /\ pc = "idle"
    /\ pc' = "error"
    /\ shown' = {"error"}
    /\ UNCHANGED <<df, weights, content_score, content_details, content_weaknesses,
                   technical_score, technical_details, technical_weaknesses,
                   ux_score, ux_details, ux_weaknesses, overall_score, grade, status,
                   issues_data, sorted_categories, lowest_category>>

\* content_score, content_details, content_weaknesses = scorer.analyze_content_seo(df)
AnalyzeContent ==
    /\ pc = "loaded"
    /\ \E r \in {analyze_content_seo(df)} :
           IF r.raised
           THEN /\ pc' = "error"
                /\ shown' = {"error"}
                /\ UNCHANGED <<content_score, content_details, content_weaknesses>>
           ELSE /\ pc' = "content"
                /\ content_score' = r.score
                /\ content_details' = r.details
                /\ content_weaknesses' = r.weaknesses
                /\ UNCHANGED shown
    /\ UNCHANGED <<df, weights, technical_score, technical_details, technical_weaknesses,
                   ux_score, ux_details, ux_weaknesses, overall_score, grade, status,
                   issues_data, sorted_categories, lowest_category>>

\* AnalyzeTechnical with the weaknesses kept in a list shared between the calls.
AnalyzeTechnical_shared ==
    /\ pc = "content"
    /\ \E r \in {analyze_technical_seo(df)} :
           IF r.raised
           THEN /\ pc' = "error"
                /\ shown' = {"error"}
                /\ UNCHANGED <<technical_score, technical_details, technical_weaknesses>>
           ELSE /\ pc' = "technical"
                /\ technical_score' = r.score
                /\ technical_details' = r.details
                /\ technical_weaknesses' = content_weaknesses \o r.weaknesses
                /\ UNCHANGED shown
    /\ UNCHANGED <<df, weights, content_score, content_details, content_weaknesses,
                   ux_score, ux_details, ux_weaknesses, overall_score, grade, status,
                   issues_data, sorted_categories, lowest_category>>

\* technical_score, technical_details, technical_weaknesses = scorer.analyze_technical_seo(df)
AnalyzeTechnical ==
    /\ pc = "content"
    /\ \E r \in {analyze_technical_seo(df)} :
           IF r.raised
           THEN /\ pc' = "error"
                /\ shown' = {"error"}
                /\ UNCHANGED <<technical_score, technical_details, technical_weaknesses>>
           ELSE /\ pc' = "technical"
                /\ technical_score' = r.score
                /\ technical_details' = r.details
                /\ technical_weaknesses' = r.weaknesses
                /\ UNCHANGED shown
    /\ UNCHANGED <<df, weights, content_score, content_details, content_weaknesses,
                   ux_score, ux_details, ux_weaknesses, overall_score, grade, status,
                   issues_data, sorted_categories, lowest_category>>

\* AnalyzeUx with the exception swallowed and a default score of 0.
AnalyzeUx_default ==
    /\ pc = "technical"
    /\ \E r \in {analyze_user_experience(df)} :
           /\ pc' = "ux"
           /\ ux_score' = r.score
           /\ ux_details' = IF r.raised THEN [m \in {UxMetrics[i] : i \in 1..3} |-> 0]
                            ELSE r.details
           /\ ux_weaknesses' = r.weaknesses
           /\ UNCHANGED shown
    /\ UNCHANGED <<df, weights, content_score, content_details, content_weaknesses,
                   technical_score, technical_details, technical_weaknesses,
                   overall_score, grade, status,
                   issues_data, sorted_categories, lowest_category>>

\* ux_score, ux_details, ux_weaknesses = scorer.analyze_user_experience(df)
AnalyzeUx ==
    /\ pc = "technical"
    /\ \E r \in {analyze_user_experience(df)} :
           IF r.raised
           THEN /\ pc' = "error"
                /\ shown' = {"error"}
                /\ UNCHANGED <<ux_score, ux_details, ux_weaknesses>>
           ELSE /\ pc' = "ux"
                /\ ux_score' = r.score
                /\ ux_details' = r.details
                /\ ux_weaknesses' = r.weaknesses
                /\ UNCHANGED shown
    /\ UNCHANGED <<df, weights, content_score, content_details, content_weaknesses,
                   technical_score, technical_details, technical_weaknesses,
                   overall_score, grade, status,
                   issues_data, sorted_categories, lowest_category>>

\* overall_score = scorer.calculate_overall_score(content_score, technical_score, ux_score)
CalculateOverall ==
    /\ pc = "ux"
    /\ overall_score' = calculate_overall_score(weights, content_score, technical_score, ux_score)
    /\ pc' = "overall"
    /\ UNCHANGED <<df, weights, content_score, content_details, content_weaknesses,
                   technical_score, technical_details, technical_weaknesses,
                   ux_score, ux_details, ux_weaknesses, grade, status,
                   shown, issues_data, sorted_categories, lowest_category>>

\* The dashboard: st.success, the score card with grade =
\* scorer.get_grade(overall_score) and get_score_status(overall_score), the
\* gauges, the progress bars, the issue boxes and the analysis summary.
ShowScoreCard ==
    /\ pc = "overall"
    /\ grade' = get_grade(overall_score)
    /\ status' = get_score_status(overall_score)
    /\ shown' = shown \cup {"success", "score_card", "gauges", "metrics",
                            "issues", "summary"}
    /\ pc' = "done"
    /\ UNCHANGED <<df, weights, content_score, content_details, content_weaknesses,
                   technical_score, technical_details, technical_weaknesses,
                   ux_score, ux_details, ux_weaknesses, overall_score,
                   issues_data, sorted_categories, lowest_category>>

\* "Export Results": create_export_data, then the download buttons, the text
\* report of create_summary_report among them.
ShowExport ==
    /\ pc = "done"
    /\ issues_data' = create_issues_data(content_weaknesses, technical_weaknesses,
                                         ux_weaknesses)
    /\ sorted_categories' = priority_actions(content_score, technical_score, ux_score)
    /\ shown' = shown \cup {"export"}
    /\ pc' = "exported"
    /\ UNCHANGED <<df, weights, content_score, content_details, content_weaknesses,
                   technical_score, technical_details, technical_weaknesses,
                   ux_score, ux_details, ux_weaknesses, overall_score, grade, status,
                   lowest_category>>

\* "Key Insights": lowest_category = min(categories, key=lambda x: x[1]),
\* named as the priority area.
ShowInsights ==
    /\ pc = "exported"
    /\ lowest_category' = min(categories(content_score, technical_score, ux_score)).category
    /\ shown' = shown \cup {"insights"}
    /\ pc' = "finished"
    /\ UNCHANGED <<df, weights, content_score, content_details, content_weaknesses,
                   technical_score, technical_details, technical_weaknesses,
                   ux_score, ux_details, ux_weaknesses, overall_score, grade, status,
                   issues_data, sorted_categories>>

\* Rerun with the page of the previous run left in place.
Rerun_keep ==
    /\ pc \in {"finished", "error"}
    /\ pc' = "idle"
    /\ df' = NoFile
    /\ weights' = InitWeights
    /\ content_score' = NoScore /\ content_details' = << >> /\ content_weaknesses' = << >>
    /\ technical_score' = NoScore /\ technical_details' = << >> /\ technical_weaknesses' = << >>
    /\ ux_score' = NoScore /\ ux_details' = << >> /\ ux_weaknesses' = << >>
    /\ overall_score' = NoScore /\ grade' = "" /\ status' = ""
    /\ issues_data' = << >> /\ sorted_categories' = << >>
    /\ lowest_category' = ""
    /\ UNCHANGED shown

\* The next Streamlit run starts from scratch: every local of main() and the
\* page of the previous run are gone.
Rerun ==
    /\ pc \in {"finished", "error"}
    /\ pc' = "idle"
    /\ df' = NoFile
    /\ weights' = InitWeights
    /\ content_score' = NoScore /\ content_details' = << >> /\ content_weaknesses' = << >>
    /\ technical_score' = NoScore /\ technical_details' = << >> /\ technical_weaknesses' = << >>
    /\ ux_score' = NoScore /\ ux_details' = << >> /\ ux_weaknesses' = << >>
    /\ overall_score' = NoScore /\ grade' = "" /\ status' = ""
    /\ shown' = {} /\ issues_data' = << >> /\ sorted_categories' = << >>
    /\ lowest_category' = ""

Next ==
    \/ Upload
    \/ UploadMalformed
    \/ AnalyzeContent
    \/ AnalyzeTechnical
    \/ AnalyzeUx
    \/ CalculateOverall
    \/ ShowScoreCard
    \/ ShowExport
    \/ ShowInsights
    \/ Rerun

Spec == Init /\ [][Next]_vars

----------------------------------------------------------------------------
(* The scoring functions called directly: calculate_overall_score, the     *)
(* score card, the report's priority actions and the priority area for     *)
(* every triple of category scores 0..100.                                 *)

InitScore ==
    /\ pc = "ux"
    /\ df = NoFile
    /\ weights = InitWeights
    /\ content_score \in 0..100 /\ content_details = << >> /\ content_weaknesses = << >>
    /\ technical_score \in 0..100 /\ technical_details = << >> /\ technical_weaknesses = << >>
    /\ ux_score \in 0..100 /\ ux_details = << >> /\ ux_weaknesses = << >>
    /\ overall_score = NoScore /\ grade = "" /\ status = ""
    /\ shown = {} /\ issues_data = << >> /\ sorted_categories = << >>
    /\ lowest_category = ""

NextScore ==
    \/ CalculateOverall
    \/ ShowScoreCard
    \/ ShowExport
    \/ ShowInsights

SpecScore == InitScore /\ [][NextScore]_vars

----------------------------------------------------------------------------
(* calculate_overall_score called again with one category score raised by  *)
(* one, from every triple of category scores 0..100.                       *)

RaiseContent ==
    /\ pc = "overall"
    /\ content_score < 100
    /\ content_score' = content_score + 1
    /\ overall_score' = calculate_overall_score(weights, content_score + 1,
                                                technical_score, ux_score)
    /\ pc' = "raised"
    /\ UNCHANGED <<df, weights, content_details, content_weaknesses,
                   technical_score, technical_details, technical_weaknesses,
                   ux_score, ux_details, ux_weaknesses, grade, status,
                   shown, issues_data, sorted_categories, lowest_category>>

RaiseTechnical ==
    /\ pc = "overall"
    /\ technical_score < 100
    /\ technical_score' = technical_score + 1
    /\ overall_score' = calculate_overall_score(weights, content_score,
                                                technical_score + 1, ux_score)
    /\ pc' = "raised"
    /\ UNCHANGED <<df, weights, content_score, content_details, content_weaknesses,
                   technical_details, technical_weaknesses,
                   ux_score, ux_details, ux_weaknesses, grade, status,
                   shown, issues_data, sorted_categories, lowest_category>>

RaiseUx ==
    /\ pc = "overall"
    /\ ux_score < 100
    /\ ux_score' = ux_score + 1
    /\ overall_score' = calculate_overall_score(weights, content_score,
                                                technical_score, ux_score + 1)
    /\ pc' = "raised"
    /\ UNCHANGED <<df, weights, content_score, content_details, content_weaknesses,
                   technical_score, technical_details, technical_weaknesses,
                   ux_details, ux_weaknesses, grade, status,
                   shown, issues_data, sorted_categories, lowest_category>>

NextRaise ==
    \/ CalculateOverall
    \/ RaiseContent
    \/ RaiseTechnical
    \/ RaiseUx

SpecRaise == InitScore /\ [][NextRaise]_vars

----------------------------------------------------------------------------
(* The return statement of the analyze_* methods on arbitrary metric       *)
(* scores 0..MaxDetail, and again with one metric score raised by one.     *)

\* Largest metric score of the score dictionaries drawn here.
MaxDetail == 25

InitCategory ==
    /\ pc = "blocks"
    /\ df = NoFile
    /\ weights = InitWeights
    /\ \/ /\ content_details \in [{ContentMetrics[i] : i \in 1..4} -> 0..MaxDetail]
          /\ technical_details = << >> /\ ux_details = << >>
       \/ /\ technical_details \in [{TechnicalMetrics[i] : i \in 1..2} -> 0..MaxDetail]
          /\ content_details = << >> /\ ux_details = << >>
       \/ /\ ux_details \in [{UxMetrics[i] : i \in 1..3} -> 0..MaxDetail]
          /\ content_details = << >> /\ technical_details = << >>
    /\ content_score = NoScore /\ content_weaknesses = << >>
    /\ technical_score = NoScore /\ technical_weaknesses = << >>
    /\ ux_score = NoScore /\ ux_weaknesses = << >>
    /\ overall_score = NoScore /\ grade = "" /\ status = ""
    /\ shown = {} /\ issues_data = << >> /\ sorted_categories = << >>
    /\ lowest_category = ""

\* list(scores.values()): the scores in block order.
values(details, metrics) == [i \in 1..Len(metrics) |-> details[metrics[i]]]

ReturnContent ==
    /\ pc = "blocks"
    /\ DOMAIN content_details # {}
    /\ content_score' = category_score(values(content_details, ContentMetrics))
    /\ pc' = "returned"
    /\ UNCHANGED <<df, weights, content_details, content_weaknesses,
                   technical_score, technical_details, technical_weaknesses,
                   ux_score, ux_details, ux_weaknesses, overall_score, grade, status,
                   shown, issues_data, sorted_categories, lowest_category>>

ReturnTechnical ==
    /\ pc = "blocks"
    /\ DOMAIN technical_details # {}
    /\ technical_score' = category_score(values(technical_details, TechnicalMetrics))
    /\ pc' = "returned"
    /\ UNCHANGED <<df, weights, content_score, content_details, content_weaknesses,
                   technical_details, technical_weaknesses,
                   ux_score, ux_details, ux_weaknesses, overall_score, grade, status,
                   shown, issues_data, sorted_categories, lowest_category>>

ReturnUx ==
    /\ pc = "blocks"
    /\ DOMAIN ux_details # {}
    /\ ux_score' = category_score(values(ux_details, UxMetrics))
    /\ pc' = "returned"
    /\ UNCHANGED <<df, weights, content_score, content_details, content_weaknesses,
                   technical_score, technical_details, technical_weaknesses,
                   ux_details, ux_weaknesses, overall_score, grade, status,
                   shown, issues_data, sorted_categories, lowest_category>>

RaiseContentMetric ==
    /\ pc = "returned"
    /\ \E m \in DOMAIN content_details :
          /\ content_details[m] < MaxDetail
          /\ content_details' = [content_details EXCEPT ![m] = @ + 1]
    /\ content_score' = category_score(values(content_details', ContentMetrics))
    /\ pc' = "raised"
    /\ UNCHANGED <<df, weights, content_weaknesses,
                   technical_score, technical_details, technical_weaknesses,
                   ux_score, ux_details, ux_weaknesses, overall_score, grade, status,
                   shown, issues_data, sorted_categories, lowest_category>>

RaiseTechnicalMetric ==
    /\ pc = "returned"
    /\ \E m \in DOMAIN technical_details :
          /\ technical_details[m] < MaxDetail
          /\ technical_details' = [technical_details EXCEPT ![m] = @ + 1]
    /\ technical_score' = category_score(values(technical_details', TechnicalMetrics))
    /\ pc' = "raised"
    /\ UNCHANGED <<df, weights, content_score, content_details, content_weaknesses,
                   technical_weaknesses,
                   ux_score, ux_details, ux_weaknesses, overall_score, grade, status,
                   shown, issues_data, sorted_categories, lowest_category>>

RaiseUxMetric ==
    /\ pc = "returned"
    /\ \E m \in DOMAIN ux_details :
          /\ ux_details[m] < MaxDetail
          /\ ux_details' = [ux_details EXCEPT ![m] = @ + 1]
    /\ ux_score' = category_score(values(ux_details', UxMetrics))
    /\ pc' = "raised"
    /\ UNCHANGED <<df, weights, content_score, content_details, content_weaknesses,
                   technical_score, technical_details, technical_weaknesses,
                   ux_weaknesses, overall_score, grade, status,
                   shown, issues_data, sorted_categories, lowest_category>>

NextCategory ==
    \/ ReturnContent
    \/ ReturnTechnical
    \/ ReturnUx
    \/ RaiseContentMetric
    \/ RaiseTechnicalMetric
    \/ RaiseUxMetric

SpecCategory == InitCategory /\ [][NextCategory]_vars

----------------------------------------------------------------------------
(* calculate_overall_score with scorer.weights multiplied by a common      *)
(* factor 1..MaxScale.                                                     *)

\* Largest common factor applied to the three weights.
MaxScale == 2

InitWeightsScaled ==
    /\ pc = "ux"
    /\ df = NoFile
    /\ \E k \in 1..MaxScale :
          weights = [content_seo |-> k * InitWeights.content_seo,
                     technical_seo |-> k * InitWeights.technical_seo,
                     user_experience |-> k * InitWeights.user_experience]
    /\ content_score \in 0..100 /\ content_details = << >> /\ content_weaknesses = << >>
    /\ technical_score \in 0..100 /\ technical_details = << >> /\ technical_weaknesses = << >>
    /\ ux_score \in 0..100 /\ ux_details = << >> /\ ux_weaknesses = << >>
    /\ overall_score = NoScore /\ grade = "" /\ status = ""
    /\ shown = {} /\ issues_data = << >> /\ sorted_categories = << >>
    /\ lowest_category = ""

NextWeights == CalculateOverall

SpecWeights == InitWeightsScaled /\ [][NextWeights]_vars

----------------------------------------------------------------------------
(* Properties.                                                             *)

AllMetrics ==
    {"meta_title", "meta_description", "h1_tags", "internal_linking",
     "response_time", "indexability",
     "mobile_friendly", "largest_contentful_paint", "cumulative_layout_shift"}

Range(s) == {s[i] : i \in 1..Len(s)}

ContentDone == pc \in {"content", "technical", "ux", "overall", "done", "exported", "finished"}
TechnicalDone == pc \in {"technical", "ux", "overall", "done", "exported", "finished"}
UxDone == pc \in {"ux", "overall", "done", "exported", "finished"}
OverallDone == pc \in {"overall", "done", "exported", "finished"}

\* The metric scores reported so far, and the weakness list of a metric's category.
Details == content_details @@ technical_details @@ ux_details
Reported(m) == m \in DOMAIN Details
WeaknessesOf(m) ==
    IF m \in Range(ContentMetrics) THEN content_weaknesses
    ELSE IF m \in Range(TechnicalMetrics) THEN technical_weaknesses
    ELSE ux_weaknesses

Present(m) == Required(m) \subseteq df.columns

\* num/den rounded to the nearest integer, a tie going up.
RoundHalfUp(num, den) == (2 * num + den) \div (2 * den)

\* C1: with at least one row and the metric's columns present, a reported
\* metric score is 100 * matching_rows / row_count rounded to the nearest
\* integer, halves up (1 matching row of 8 gives 13).
C1_MetricScoreHalfUp ==
    \A m \in AllMetrics :
        (Reported(m) /\ Present(m) /\ Len(df.rows) >= 1)
            => Details[m] = RoundHalfUp(100 * Matching(df, m), Len(df.rows))

\* C2: each category score is the mean of that category's reported metric
\* scores rounded to the nearest integer, halves up.
C2_CategoryScoreHalfUp ==
    /\ ContentDone =>
          content_score = RoundHalfUp(SumSeq([i \in 1..4 |-> content_details[ContentMetrics[i]]]), 4)
    /\ TechnicalDone =>
          technical_score = RoundHalfUp(SumSeq([i \in 1..2 |-> technical_details[TechnicalMetrics[i]]]), 2)
    /\ UxDone =>
          ux_score = RoundHalfUp(SumSeq([i \in 1..3 |-> ux_details[UxMetrics[i]]]), 3)

\* C3: for all category scores c, t, u in 0..100 the overall score is the
\* integer nearest to (c/100*0.4 + t/100*0.4 + u/100*0.2) / (0.4+0.4+0.2) * 100
\* (never a tie), and scores 80, 60, 40 give 64.
C3_OverallScoreFormula ==
    OverallDone =>
        LET num == 100 * (content_score * 4 + technical_score * 4 + ux_score * 2)
            den == 100 * (4 + 4 + 2)
        IN  /\ 2 * num - den < 2 * den * overall_score
            /\ 2 * den * overall_score < 2 * num + den
            /\ (content_score = 80 /\ technical_score = 60 /\ ux_score = 40)
                  => overall_score = 64

C3_Witness ==
    /\ pc = "overall"
    /\ content_score = 80 /\ technical_score = 60 /\ ux_score = 40
    /\ overall_score = 64

\* C4: the grade of an overall score s is A+ iff s >= 90, A iff 80..89,
\* B iff 70..79, C iff 60..69, D iff 50..59, F iff s <= 49.
C4_GradeBands ==
    pc = "done" =>
        /\ grade \in {"A+", "A", "B", "C", "D", "F"}
        /\ (grade = "A+") <=> (overall_score >= 90)
        /\ (grade = "A") <=> (overall_score >= 80 /\ overall_score <= 89)
        /\ (grade = "B") <=> (overall_score >= 70 /\ overall_score <= 79)
        /\ (grade = "C") <=> (overall_score >= 60 /\ overall_score <= 69)
        /\ (grade = "D") <=> (overall_score >= 50 /\ overall_score <= 59)
        /\ (grade = "F") <=> (overall_score <= 49)

C4_Witness == pc = "done" /\ overall_score = 89 /\ grade = "A"

C6_AbsentColumnScoresZero ==
    Len(df.rows) >= 1 =>
        /\ pc # "error"
        /\ \A m \in AllMetrics : (Reported(m) /\ ~Present(m)) => Details[m] = 0
        /\ ContentDone => (DOMAIN content_details = Range(ContentMetrics)
                           /\ content_score # NoScore)
        /\ TechnicalDone => (DOMAIN technical_details = Range(TechnicalMetrics)
                             /\ technical_score # NoScore)
        /\ UxDone => (DOMAIN ux_details = Range(UxMetrics) /\ ux_score # NoScore)
        /\ OverallDone => overall_score # NoScore

C6_Witness ==
    /\ pc = "done"
    /\ Len(df.rows) >= 1
    /\ "Indexability" \notin df.columns
    /\ technical_details["indexability"] = 0
    /\ technical_details["response_time"] = 100
    /\ technical_score = 50
    /\ overall_score > 0

\* C7: for a dataset with zero rows, whichever columns it has, the pipeline
\* raises nothing, every metric scores 0 and no weakness is emitted.
C7_EmptyDatasetCompletes ==
    (pc # "idle" /\ Len(df.rows) = 0) =>
        /\ pc # "error"
        /\ \A m \in AllMetrics : Reported(m) => Details[m] = 0
        /\ content_weaknesses = << >>
        /\ technical_weaknesses = << >>
        /\ ux_weaknesses = << >>

\* C8 as stated, on the datasets with at least one row: a metric reported
\* below its alert threshold (70 for indexability, 50 otherwise) has its
\* message in its category's weakness list, also when it is 0 because its
\* columns are absent.
C8_WeaknessComplete ==
    \A m \in AllMetrics :
        (Len(df.rows) >= 1 /\ Reported(m)
         /\ Details[m] < (IF m = "indexability" THEN 70 ELSE 50))
            => Message(m) \in Range(WeaknessesOf(m))

\* C8 amended: a metric whose required columns are present and which is
\* reported below its alert threshold has its message in its category's
\* weakness list; a metric with a required column absent is reported 0 and
\* has no message.
C8_WeaknessCompleteWhenPresent ==
    \A m \in AllMetrics :
        Reported(m) =>
            /\ (Present(m) /\ Details[m] < (IF m = "indexability" THEN 70 ELSE 50))
                  => Message(m) \in Range(WeaknessesOf(m))
            /\ ~Present(m)
                  => (Details[m] = 0 /\ Message(m) \notin Range(WeaknessesOf(m)))

C8_Witness ==
    /\ TechnicalDone
    /\ Len(df.rows) >= 1
    /\ Present("indexability")
    /\ technical_details["indexability"] = 0
    /\ "Pages not indexable." \in Range(technical_weaknesses)
    /\ ~Present("response_time")
    /\ technical_details["response_time"] = 0
    /\ "Slow response times." \notin Range(technical_weaknesses)

\* C9 as stated: a metric's message is in the weakness list only if its
\* reported (rounded) score is below its alert threshold.
C9_WeaknessSound ==
    \A m \in AllMetrics :
        (Reported(m) /\ Message(m) \in Range(WeaknessesOf(m)))
            => Details[m] < (IF m = "indexability" THEN 70 ELSE 50)

\* C9 amended: a metric's message is in the weakness list only if its
\* columns are present and its unrounded percentage 100 * matching / rows is
\* below its alert threshold; its reported score is then at most the
\* threshold, and may equal it (16 of 23 rows indexable: reported 70, with
\* the message).
C9_WeaknessSoundUnrounded ==
    \A m \in AllMetrics :
        (Reported(m) /\ Message(m) \in Range(WeaknessesOf(m)))
            => /\ Present(m)
               /\ 100 * Matching(df, m) < (IF m = "indexability" THEN 70 ELSE 50) * Len(df.rows)
               /\ Details[m] <= (IF m = "indexability" THEN 70 ELSE 50)

C9_Witness ==
    /\ TechnicalDone
    /\ Len(df.rows) = 23
    /\ Present("indexability")
    /\ Matching(df, "indexability") = 16
    /\ technical_details["indexability"] = 70
    /\ "Pages not indexable." \in Range(technical_weaknesses)

\* C10: every metric score, category score and overall score the pipeline
\* produces is an integer in 0..100.
C10_ScoresInRange ==
    /\ \A m \in AllMetrics : Reported(m) => Details[m] \in 0..100
    /\ ContentDone => content_score \in 0..100
    /\ TechnicalDone => technical_score \in 0..100
    /\ UxDone => ux_score \in 0..100
    /\ OverallDone => overall_score \in 0..100

C10_Witness ==
    /\ pc = "done"
    /\ \A m \in AllMetrics : Details[m] = 100
    /\ content_score = 100 /\ technical_score = 100 /\ ux_score = 100
    /\ overall_score = 100

C12_OverallMonotone ==
    [][pc' = "raised" =>
          /\ weights' = weights
          /\ overall_score' >= overall_score]_vars

C12_Witness ==
    /\ pc = "raised"
    /\ content_score = 81 /\ technical_score = 60 /\ ux_score = 42
    /\ overall_score = 65

\* C13: raising one metric score of a category by one, the others fixed,
\* never lowers the category score (and so lowering one never raises it).
C13_CategoryMonotone ==
    [][pc' = "raised" =>
          /\ content_score' >= content_score
          /\ technical_score' >= technical_score
          /\ ux_score' >= ux_score]_vars

C13_Witness ==
    /\ pc = "raised"
    /\ DOMAIN technical_details # {}
    /\ technical_details["response_time"] = 3
    /\ technical_details["indexability"] = 2
    /\ technical_score = 2

\* C14: with all three weights multiplied by a common positive factor the
\* result of calculate_overall_score is the result under the weights
\* 0.4, 0.4, 0.2.
C14_ScaleInvariant ==
    pc = "overall" =>
        overall_score = calculate_overall_score(InitWeights, content_score,
                                                technical_score, ux_score)

\* The statement about to run raises on the current dataset.
StepRaises ==
    \/ pc = "loaded" /\ analyze_content_seo(df).raised
    \/ pc = "content" /\ analyze_technical_seo(df).raised
    \/ pc = "technical" /\ analyze_user_experience(df).raised

\* Nothing of a result: no overall score, grade, status, export or insight,
\* and nothing but the error on the page.
NoResult ==
    /\ shown = {"error"}
    /\ overall_score = NoScore /\ grade = "" /\ status = ""
    /\ issues_data = << >> /\ sorted_categories = << >> /\ lowest_category = ""

\* C15: when loading the file or a scoring step raises, the run ends with
\* the error shown and nothing else: no overall score, no grade, no score
\* card, no export, and no score put in place of the failed step.
C15_ErrorShowsNoResult ==
    [][/\ StepRaises => pc' = "error"
       /\ pc' = "error" => NoResult']_vars

C15_Witness ==
    /\ pc = "error"
    /\ content_score # NoScore
    /\ technical_score = NoScore
    /\ NoResult

MessageOrder ==
    [i \in 1..9 |-> Message((ContentMetrics \o TechnicalMetrics \o UxMetrics)[i])]

\* The messages of ms are drawn from those of the metrics, in definition
\* order, none twice.
InOrder(ms, metrics) ==
    /\ \A i \in 1..Len(ms) : \E k \in 1..Len(metrics) : ms[i] = Message(metrics[k])
    /\ \A i, j \in 1..Len(ms) :
          i < j => \E a, b \in 1..9 :
                       /\ a < b
                       /\ MessageOrder[a] = ms[i]
                       /\ MessageOrder[b] = ms[j]

\* C18: each weakness list holds its category's messages in metric
\* definition order, none twice, and the exported issues list them category
\* after category in the order Content, Technical, User Experience.
C18_MessageOrder ==
    /\ InOrder(content_weaknesses, ContentMetrics)
    /\ InOrder(technical_weaknesses, TechnicalMetrics)
    /\ InOrder(ux_weaknesses, UxMetrics)
    /\ issues_data # << >> =>
          /\ Len(issues_data) = 3
          /\ issues_data[1] = issues_of(content_weaknesses)
          /\ issues_data[2] = issues_of(technical_weaknesses)
          /\ issues_data[3] = issues_of(ux_weaknesses)
          /\ InOrder(SelectSeq(Flatten(issues_data),
                               LAMBDA x : x # "No issues detected"),
                     ContentMetrics \o TechnicalMetrics \o UxMetrics)

C18_Witness ==
    /\ pc = "finished"
    /\ Len(content_weaknesses) = 4
    /\ Len(technical_weaknesses) = 1
    /\ Len(ux_weaknesses) >= 2
    /\ Len(Flatten(issues_data)) >= 7

\* C19: the first line under "Priority Actions" names the category the
\* dashboard gives as "Priority area", the lowest score with ties going to
\* Content SEO, then Technical SEO, then User Experience; the lines list the
\* three categories by non-decreasing score, each labelled HIGH below 60,
\* MEDIUM from 60 to 79 and LOW from 80.
C19_PriorityAgrees ==
    pc = "finished" =>
        /\ Len(sorted_categories) = 3
        /\ sorted_categories[1].category = lowest_category
        /\ lowest_category =
              IF content_score <= technical_score /\ content_score <= ux_score
              THEN "Content SEO"
              ELSE IF technical_score <= ux_score THEN "Technical SEO"
              ELSE "User Experience"
        /\ \A i \in 1..2 : sorted_categories[i].score <= sorted_categories[i + 1].score
        /\ {<<sorted_categories[i].category, sorted_categories[i].score>> : i \in 1..3}
              = {<<"Content SEO", content_score>>, <<"Technical SEO", technical_score>>,
                 <<"User Experience", ux_score>>}
        /\ \A i \in 1..3 :
              /\ sorted_categories[i].priority = "HIGH" <=> sorted_categories[i].score < 60
              /\ sorted_categories[i].priority = "MEDIUM" <=>
                    (60 <= sorted_categories[i].score /\ sorted_categories[i].score < 80)
              /\ sorted_categories[i].priority = "LOW" <=> sorted_categories[i].score >= 80

C19_Witness ==
    /\ pc = "finished"
    /\ content_score = 70 /\ technical_score = 50 /\ ux_score = 50
    /\ lowest_category = "Technical SEO"
    /\ sorted_categories[1].category = "Technical SEO"
    /\ sorted_categories[2].category = "User Experience"

====
